---- MODULE Spec2Model ----
(***************************************************************************)
(* Pro Mind Map (src/src/App.tsx): the outline parser, the mask policy,    *)
(* the recall state store, the progress calculator and the session         *)
(* lifecycle of the App component (first definition, lines 9-467).         *)
(*                                                                         *)
(* Strings are sequences of one-character strings.  A TreeNode object is   *)
(* a record in an arena (a sequence of nodes); an object reference is an   *)
(* index into the arena, the root is index 1, and `children` is the        *)
(* sequence of the children's indices.                                     *)
(***************************************************************************)
EXTENDS Integers, Sequences, FiniteSets, TLC

(***************************************************************************)
(* Bounds of the model.                                                    *)
(***************************************************************************)
\* most lines of an input text of the parser specification
MaxLines == 4
\* widest indentation of a line of an input text
MaxIndent == 2
\* most sessions in the collection when an upload starts
MaxSessions == 2
\* most hints taken on one node
MaxHints == 1
\* last value of the clock behind Date.now()
MaxTime == 2
\* most file reads in flight
MaxReaders == 1
\* most lines below the root line of an outline of the progress specification
MaxBelow == 40
\* most events (user actions and file-read completions) of one behaviour
MaxEvents == 5
\* most error timeouts of one MindMapNode pending at a time
MaxTimers == 2

(***************************************************************************)
(* Types and enums (lines 11-42).                                          *)
(***************************************************************************)
BASIC == 1
INTERMEDIATE == 2
MASTER == 3
DifficultyLevel == {BASIC, INTERMEDIATE, MASTER}

Null == [null |-> TRUE]

(***************************************************************************)
(* String helpers: what the JavaScript string methods used by the parser   *)
(* do on character sequences.                                              *)
(***************************************************************************)
NL == "\n"

\* the regular expression class \s, on the characters of the model
IsSpace(c) == c \in {" ", NL}

\* String.prototype.split('\n'): the pieces between successive separators
Split(s) ==
  LET seps == {i \in 1..Len(s) : s[i] = NL}
      n    == Cardinality(seps)
      \* position of the k-th separator, 0 and Len(s) + 1 at the two ends
      at   == [k \in 0..(n + 1) |->
                IF k = 0 THEN 0
                ELSE IF k = n + 1 THEN Len(s) + 1
                ELSE CHOOSE i \in seps :
                       Cardinality({j \in seps : j < i}) = k - 1]
  IN  [k \in 1..(n + 1) |-> SubSeq(s, at[k - 1] + 1, at[k] - 1)]

\* number of leading characters of s that satisfy \s
RECURSIVE LeadingSpaces(_)
LeadingSpaces(s) ==
  IF s = <<>> \/ ~IsSpace(Head(s)) THEN 0 ELSE 1 + LeadingSpaces(Tail(s))

RECURSIVE TrailingSpaces(_)
TrailingSpaces(s) ==
  IF s = <<>> \/ ~IsSpace(s[Len(s)]) THEN 0
  ELSE 1 + TrailingSpaces(SubSeq(s, 1, Len(s) - 1))

DropFirst(s, n) == SubSeq(s, n + 1, Len(s))

\* String.prototype.trim()
Trim(s) ==
  LET t == DropFirst(s, LeadingSpaces(s))
  IN  SubSeq(t, 1, Len(t) - TrailingSpaces(t))

RECURSIVE LeadingHashes(_)
LeadingHashes(s) ==
  IF s = <<>> \/ Head(s) # "#" THEN 0 ELSE 1 + LeadingHashes(Tail(s))

\* s.replace(/^[-*+]\s*/, '')
StripBullet(s) ==
  IF s # <<>> /\ Head(s) \in {"-", "*", "+"}
  THEN DropFirst(Tail(s), LeadingSpaces(Tail(s)))
  ELSE s

\* s.replace(/^#+\s*/, '')
StripHeading(s) ==
  IF LeadingHashes(s) > 0
  THEN LET t == DropFirst(s, LeadingHashes(s))
       IN  DropFirst(t, LeadingSpaces(t))
  ELSE s

\* Array.prototype.filter
RECURSIVE FilterNonBlank(_)
FilterNonBlank(ls) ==
  IF ls = <<>> THEN <<>>
  ELSE IF Len(Trim(Head(ls))) > 0
       THEN <<Head(ls)>> \o FilterNonBlank(Tail(ls))
       ELSE FilterNonBlank(Tail(ls))

(***************************************************************************)
(* parseMarkdownToTree (lines 50-108).                                     *)
(***************************************************************************)
\* line 51
NonBlankLines(t) == FilterNonBlank(Split(t))

\* lines 56-59
getIndent(line) == LeadingSpaces(line)

\* lines 61-66
cleanText(line) == Trim(StripHeading(StripBullet(Trim(line))))

EmptyTreeText == <<"E", "m", "p", "t", "y", " ", "T", "r", "e", "e">>
ParsingErrorText ==
  <<"P", "a", "r", "s", "i", "n", "g", " ", "E", "r", "r", "o", "r">>

RootId == <<"root", 0>>

\* line 53
EmptyTree ==
  <<[id |-> RootId, text |-> EmptyTreeText, children |-> <<>>,
     isLeaf |-> TRUE, level |-> 0]>>

\* line 107, the fallback when no line set the root
ParsingErrorTree ==
  <<[id |-> RootId, text |-> ParsingErrorText, children |-> <<>>,
     isLeaf |-> TRUE, level |-> 0]>>

\* lines 75-81
NewNode(id, line) ==
  [id |-> id, text |-> cleanText(line), children |-> <<>>,
   isLeaf |-> TRUE, level |-> 0]

\* mutant of PopWhile: the loop pops on > instead of >=
RECURSIVE PopWhileStrict(_, _)
PopWhileStrict(stk, indent) ==
  IF Len(stk) > 0 /\ stk[Len(stk)].indent > indent
  THEN PopWhileStrict(SubSeq(stk, 1, Len(stk) - 1), indent)
  ELSE stk

\* lines 89-91
RECURSIVE PopWhile(_, _)
PopWhile(stk, indent) ==
  IF Len(stk) > 0 /\ stk[Len(stk)].indent >= indent
  THEN PopWhile(SubSeq(stk, 1, Len(stk) - 1), indent)
  ELSE stk

\* parent.children.push(node); parent.isLeaf = false (lines 95-96, 100-101)
AttachChild(arena, parent, child) ==
  [arena EXCEPT ![parent].children = Append(@, child),
                ![parent].isLeaf = FALSE]

\* mutant of AttachToRoot: root.isLeaf is left as it was
AttachToRootStaleLeaf(st, node, indent) ==
  LET n == Len(st.nodes) + 1
  IN  [nodes |-> Append([st.nodes EXCEPT ![st.root].children = Append(@, n)],
                        [node EXCEPT !.level = 1]),
       root  |-> st.root,
       stack |-> <<[node |-> n, indent |-> indent]>>]

\* mutant of AttachToRoot: no else branch, the line is dropped (as in the
\* parser of lines 482-504)
AttachToRootDropped(st, node, indent) == st

\* lines 100-103: the stack is empty, the node goes under the root
AttachToRoot(st, node, indent) ==
  LET n == Len(st.nodes) + 1
  IN  [nodes |-> Append(AttachChild(st.nodes, st.root, n),
                        [node EXCEPT !.level = 1]),
       root  |-> st.root,
       stack |-> <<[node |-> n, indent |-> indent]>>]

\* mutant of AttachToTop: the parent is looked up by its identifier, the
\* first node carrying it being taken
AttachToTopById(st, stk, node, indent) ==
  LET n == Len(st.nodes) + 1
      parentEntry == stk[Len(stk)]
      sameId == {j \in 1..Len(st.nodes) :
                   st.nodes[j].id = st.nodes[parentEntry.node].id}
      found == CHOOSE j \in sameId : \A i \in sameId : j <= i
  IN  [nodes |-> Append(AttachChild(st.nodes, found, n),
                        [node EXCEPT !.level = Len(stk)]),
       root  |-> st.root,
       stack |-> Append(stk, [node |-> n, indent |-> indent])]

\* lines 94-98: the node goes under the top of the stack
AttachToTop(st, stk, node, indent) ==
  LET n == Len(st.nodes) + 1
      parentEntry == stk[Len(stk)]
  IN  [nodes |-> Append(AttachChild(st.nodes, parentEntry.node, n),
                        [node EXCEPT !.level = Len(stk)]),
       root  |-> st.root,
       stack |-> Append(stk, [node |-> n, indent |-> indent])]

\* the forEach callback (lines 71-105); st.root = 0 is `root === null`
ParseLineStep(st, line, id) ==
  LET indent == getIndent(line)
      node   == NewNode(id, line)
  IN  IF st.root = 0
      THEN [nodes |-> <<node>>, root |-> 1,
            stack |-> <<[node |-> 1, indent |-> indent]>>]
      ELSE LET stk == PopWhile(st.stack, indent)
           IN  IF Len(stk) > 0
               THEN AttachToTop(st, stk, node, indent)
               ELSE AttachToRoot(st, node, indent)

\* lines 68-69
ParseStart == [nodes |-> <<>>, root |-> 0, stack |-> <<>>]

RECURSIVE ParseLines(_, _, _)
ParseLines(st, ls, ids) ==
  IF ls = <<>> THEN st
  ELSE ParseLines(ParseLineStep(st, Head(ls), Head(ids)), Tail(ls), Tail(ids))

\* line 107
ParseResult(st) == IF st.root # 0 THEN st.nodes ELSE ParsingErrorTree

\* parseMarkdownToTree, the identifiers generateId returns given as ids
parseMarkdownToTree(t, ids) ==
  LET ls == NonBlankLines(t)
  IN  IF Len(ls) = 0 THEN EmptyTree
      ELSE ParseResult(ParseLines(ParseStart, ls, ids))

(***************************************************************************)
(* Trees: the nodes of an arena and the children of a node.                *)
(***************************************************************************)
NodesOf(t) == 1..Len(t)

ChildSet(t, i) == {t[i].children[k] : k \in 1..Len(t[i].children)}

(***************************************************************************)
(* Mask policy (MindMapNode, lines 120-133).                               *)
(***************************************************************************)
\* line 120
DefaultNodeState ==
  [isSolved |-> FALSE, isStarred |-> FALSE, isCollapsed |-> FALSE,
   hintCount |-> 0]

\* session.nodeStates[id] || default (lines 120, 294, 320)
StateOf(nodeStates, id) ==
  IF id \in DOMAIN nodeStates THEN nodeStates[id] ELSE DefaultNodeState

\* mutant of shouldMask: the middle tier forgets the leaves themselves
shouldMaskParentsOnly(t, i, difficulty) ==
  IF t[i].level = 0 THEN FALSE
  ELSE IF difficulty = BASIC THEN t[i].isLeaf
  ELSE IF difficulty = INTERMEDIATE
       THEN \E c \in ChildSet(t, i) : t[c].isLeaf
  ELSE IF difficulty = MASTER THEN t[i].level > 0
  ELSE FALSE

\* lines 125-131
shouldMask(t, i, difficulty) ==
  IF t[i].level = 0 THEN FALSE
  ELSE IF difficulty = BASIC THEN t[i].isLeaf
  ELSE IF difficulty = INTERMEDIATE
       THEN t[i].isLeaf \/ \E c \in ChildSet(t, i) : t[c].isLeaf
  ELSE IF difficulty = MASTER THEN t[i].level > 0
  ELSE FALSE

\* line 133
isMasked(session, i) ==
  /\ shouldMask(session.data, i, session.difficulty)
  /\ ~StateOf(session.nodeStates, session.data[i].id).isSolved

(***************************************************************************)
(* Progress calculator (lines 252-270).                                    *)
(***************************************************************************)
\* mutant of shouldMaskNode: the lowest tier masks every non-root node
shouldMaskNodeAll(t, i, level) == t[i].level > 0

\* lines 254-259
shouldMaskNode(t, i, level) ==
  IF t[i].level = 0 THEN FALSE
  ELSE IF level = BASIC THEN t[i].isLeaf
  ELSE IF level = INTERMEDIATE
       THEN t[i].isLeaf \/ \E c \in ChildSet(t, i) : t[c].isLeaf
  ELSE t[i].level > 0

\* lines 252-263
RECURSIVE calculateRequiredNodes(_, _, _)
RECURSIVE SumRequired(_, _, _)
calculateRequiredNodes(t, i, level) ==
  (IF shouldMaskNode(t, i, level) THEN 1 ELSE 0)
    + SumRequired(t, t[i].children, level)
SumRequired(t, cs, level) ==
  IF cs = <<>> THEN 0
  ELSE calculateRequiredNodes(t, Head(cs), level)
         + SumRequired(t, Tail(cs), level)

Min(a, b) == IF a <= b THEN a ELSE b
Max(a, b) == IF a >= b THEN a ELSE b

(***************************************************************************)
(* IEEE 754 double arithmetic on the values line 268 computes.  A          *)
(* non-negative double is [bits, scale]: bits is its significand, least    *)
(* significant bit first and without high zeros, and its value is          *)
(* bits * 2^(-scale).                                                      *)
(***************************************************************************)
Precision == 53

RECURSIVE NatToBits(_)
NatToBits(n) == IF n = 0 THEN <<>> ELSE <<n % 2>> \o NatToBits(n \div 2)

RECURSIVE BitsToNat(_)
BitsToNat(b) == IF b = <<>> THEN 0 ELSE Head(b) + 2 * BitsToNat(Tail(b))

RECURSIVE Zeros(_)
Zeros(n) == IF n <= 0 THEN <<>> ELSE <<0>> \o Zeros(n - 1)

ShiftLeft(b, n) == IF b = <<>> THEN <<>> ELSE Zeros(n) \o b

RECURSIVE IncBits(_)
IncBits(b) ==
  IF b = <<>> THEN <<1>>
  ELSE IF Head(b) = 0 THEN <<1>> \o Tail(b)
  ELSE <<0>> \o IncBits(Tail(b))

RECURSIVE AddBits(_, _, _)
AddBits(a, b, carry) ==
  IF a = <<>> /\ b = <<>> THEN (IF carry = 1 THEN <<1>> ELSE <<>>)
  ELSE LET x == IF a = <<>> THEN 0 ELSE Head(a)
           y == IF b = <<>> THEN 0 ELSE Head(b)
           sum == x + y + carry
       IN  <<sum % 2>> \o AddBits(IF a = <<>> THEN <<>> ELSE Tail(a),
                                  IF b = <<>> THEN <<>> ELSE Tail(b),
                                  sum \div 2)

\* round to nearest, ties to even, to Precision significant bits; sticky says
\* that the exact value has non-zero bits below those of b
RoundToDouble(b, scale, sticky) ==
  IF Len(b) <= Precision THEN [bits |-> b, scale |-> scale]
  ELSE LET drop == Len(b) - Precision
           kept == SubSeq(b, drop + 1, Len(b))
           guard == b[drop]
           rest == sticky \/ \E k \in 1..(drop - 1) : b[k] = 1
           up == guard = 1 /\ (rest \/ kept[1] = 1)
       IN  [bits |-> IF up THEN IncBits(kept) ELSE kept,
            scale |-> scale - drop]

\* the quotient num / den by long division, to one bit more than Precision
RECURSIVE QuotientBits(_, _, _, _)
QuotientBits(b, rem, den, scale) ==
  IF Len(b) > Precision THEN [bits |-> b, rem |-> rem, scale |-> scale]
  ELSE LET bit == IF 2 * rem >= den THEN 1 ELSE 0
       IN  QuotientBits(IF b = <<>> /\ bit = 0 THEN <<>> ELSE <<bit>> \o b,
                        2 * rem - bit * den, den, scale + 1)

\* the double num / den, for integers num >= 0 and den >= 1
DoubleDivide(num, den) ==
  IF num = 0 THEN [bits |-> <<>>, scale |-> 0]
  ELSE LET q == QuotientBits(NatToBits(num \div den), num % den, den, 0)
       IN  RoundToDouble(q.bits, q.scale, q.rem # 0)

\* the double x * 100
DoubleTimes100(x) ==
  RoundToDouble(AddBits(AddBits(ShiftLeft(x.bits, 6), ShiftLeft(x.bits, 5), 0),
                        ShiftLeft(x.bits, 2), 0),
                x.scale, FALSE)

\* Math.round(x): the nearest integer, a half going up
MathRound(x) ==
  IF x.scale <= 0 THEN BitsToNat(ShiftLeft(x.bits, 0 - x.scale))
  ELSE BitsToNat(SubSeq(x.bits, x.scale + 1, Len(x.bits)))
         + (IF Len(x.bits) >= x.scale THEN x.bits[x.scale] ELSE 0)

\* mutant of RoundPercent: Math.floor for Math.round
FloorPercent(num, den) == (100 * num) \div den

\* Math.round((num / den) * 100) of line 268, tabulated: a function of the
\* two counts
PercentTable ==
  [num \in 0..(MaxBelow + 1), den \in 1..(MaxBelow + 1) |->
     MathRound(DoubleTimes100(DoubleDivide(num, den)))]

RoundPercent(num, den) == PercentTable[num, den]

\* mutant of SolvedCount: the filter keeps the entries that are not solved
SolvedCountNegated(nodeStates) ==
  Cardinality({k \in DOMAIN nodeStates : ~nodeStates[k].isSolved})

\* line 267
SolvedCount(nodeStates) ==
  Cardinality({k \in DOMAIN nodeStates : nodeStates[k].isSolved})

\* mutant of updateProgress: no Math.min(100, ...)
updateProgressNoClamp(sessionData) ==
  [sessionData EXCEPT !.progress =
     RoundPercent(SolvedCount(sessionData.nodeStates),
                  Max(1, calculateRequiredNodes(sessionData.data, 1,
                                                sessionData.difficulty)))]

\* mutant of updateProgress: only solved entries of nodes required at the
\* difficulty are counted
updateProgressRequiredOnly(sessionData) ==
  LET totalRequired ==
        calculateRequiredNodes(sessionData.data, 1, sessionData.difficulty)
      solvedCount ==
        Cardinality({i \in NodesOf(sessionData.data) :
                       /\ shouldMaskNode(sessionData.data, i,
                                         sessionData.difficulty)
                       /\ StateOf(sessionData.nodeStates,
                                  sessionData.data[i].id).isSolved})
  IN  [sessionData EXCEPT !.progress =
         Min(100, RoundPercent(solvedCount, Max(1, totalRequired)))]

\* lines 265-270
updateProgress(sessionData) ==
  LET totalRequired ==
        calculateRequiredNodes(sessionData.data, 1, sessionData.difficulty)
      solvedCount == SolvedCount(sessionData.nodeStates)
  IN  [sessionData EXCEPT !.progress =
         Min(100, RoundPercent(solvedCount, Max(1, totalRequired)))]

(***************************************************************************)
(* State.                                                                  *)
(***************************************************************************)
VARIABLES
  \* one call of parseMarkdownToTree
  text,      \* the argument
  ppc,       \* where the call is: "begin", "loop" (lines 71-105), "done"
  lines,     \* the non-blank lines (line 51)
  cursor,    \* index of the line the forEach loop handles next
  stack,     \* line 68
  root,      \* line 69: 0 is null, otherwise the index of the root node
  heap,      \* the TreeNode objects allocated by the call
  tree,      \* the returned tree; empty until the call returns
  \* the App component (lines 232-238) and its environment
  view,          \* line 233
  sessions,      \* line 234
  activeSession, \* line 235
  globalExpand,  \* line 237
  storage,       \* localStorage[STORAGE_KEY]
  readers,       \* FileReaders that have not fired onload yet (lines 384-386)
  now,           \* the clock behind Date.now()
  events,        \* number of events handled so far
  mpc,           \* the mount effect (lines 240-245): "initial" before it has
                 \* run, "mounted" after, "failed" when the render after it threw
  \* one call of updateProgress
  cpc,           \* where the call is: "begin", "done"
  sessionData,   \* the argument
  returned,      \* the returned session
  \* one MindMapNode component of the study view (lines 112-228)
  node,          \* the node it renders, as an index of the tree; 0: none
  inputValue,    \* line 121
  isError,       \* line 122
  timers         \* calls of setTimeout of line 149 that have not fired yet

parseVars == <<text, ppc, lines, cursor, stack, root, heap, tree>>
appVars == <<view, sessions, activeSession, globalExpand, storage, readers, now,
            events, mpc>>
calcVars == <<cpc, sessionData, returned>>
nodeVars == <<node, inputValue, isError, timers>>
vars == <<parseVars, appVars, calcVars, nodeVars>>

(***************************************************************************)
(* Input texts of the parser specification: up to MaxLines lines joined    *)
(* by newlines: a blank line, a bullet, or a label indented 0..MaxIndent.  *)
(***************************************************************************)
RECURSIVE Spaces(_)
Spaces(n) == IF n = 0 THEN <<>> ELSE <<" ">> \o Spaces(n - 1)

InputLines ==
  {<<" ">>, <<"-", " ", "b">>} \cup {Spaces(k) \o <<"a">> : k \in 0..MaxIndent}

RECURSIVE Join(_)
Join(ls) ==
  IF Len(ls) = 0 THEN <<>>
  ELSE IF Len(ls) = 1 THEN ls[1]
  ELSE ls[1] \o <<NL>> \o Join(Tail(ls))

InputTexts ==
  {Join(ls) : ls \in UNION {[1..n -> InputLines] : n \in 0..MaxLines}}

\* the values generateId (line 48) may return
Ids == {<<"id", 1>>, <<"id", 2>>}

(***************************************************************************)
(* The parser as a state machine: one step per forEach callback.           *)
(***************************************************************************)
\* the App component as mounted with nothing stored (lines 233-245)
InitApp ==
  /\ view = "dashboard"
  /\ sessions = <<>>
  /\ activeSession = Null
  /\ globalExpand = TRUE
  /\ storage = [saved |-> FALSE, list |-> <<>>]
  /\ readers = {}
  /\ now = 1
  /\ events = 0
  /\ mpc = "mounted"

\* no call of parseMarkdownToTree is being followed
IdleParse ==
  /\ text = <<>>
  /\ ppc = "idle"
  /\ lines = <<>>
  /\ cursor = 1
  /\ stack = <<>>
  /\ root = 0
  /\ heap = <<>>
  /\ tree = <<>>

\* no call of updateProgress is being followed
IdleCalc ==
  /\ cpc = "idle"
  /\ sessionData = Null
  /\ returned = Null

\* no MindMapNode component is being followed
IdleNode ==
  /\ node = 0
  /\ inputValue = <<>>
  /\ isError = FALSE
  /\ timers = 0

InitParse ==
  /\ text \in InputTexts
  /\ ppc = "begin"
  /\ lines = <<>>
  /\ cursor = 1
  /\ stack = <<>>
  /\ root = 0
  /\ heap = <<>>
  /\ tree = <<>>
  /\ InitApp
  /\ IdleCalc
  /\ IdleNode

\* lines 51-54 and 68-69
ParseBegin ==
  /\ ppc = "begin"
  /\ lines' = NonBlankLines(text)
  /\ IF Len(NonBlankLines(text)) = 0
     THEN tree' = EmptyTree /\ ppc' = "done"
     ELSE tree' = tree /\ ppc' = "loop"
  /\ UNCHANGED <<text, cursor, stack, root, heap, appVars, calcVars, nodeVars>>

\* lines 71-105, one line of the loop
ParseLine ==
  /\ ppc = "loop"
  /\ cursor <= Len(lines)
  /\ \E id \in Ids :
       LET st == ParseLineStep([nodes |-> heap, root |-> root, stack |-> stack],
                               lines[cursor], id)
       IN  /\ heap' = st.nodes
           /\ root' = st.root
           /\ stack' = st.stack
  /\ cursor' = cursor + 1
  /\ UNCHANGED <<text, ppc, lines, tree, appVars, calcVars, nodeVars>>

\* line 107
ParseReturn ==
  /\ ppc = "loop"
  /\ cursor > Len(lines)
  /\ tree' = ParseResult([nodes |-> heap, root |-> root, stack |-> stack])
  /\ ppc' = "done"
  /\ UNCHANGED <<text, lines, cursor, stack, root, heap, appVars, calcVars, nodeVars>>

NextParse == ParseBegin \/ ParseLine \/ ParseReturn

SpecParse == InitParse /\ [][NextParse]_vars

(***************************************************************************)
(* The App component (lines 232-467).                                      *)
(***************************************************************************)
\* the outline of the "Load Demo" button (lines 348-362), abridged to its
\* first three lines, each label to its initial
DemoContent == <<"E", NL, " ", " ", "T", NL, " ", " ", " ", " ", "B">>

DemoName == "Demo: English Theory"

\* what a chosen file may hold and be called
FileContents == {<<>>, <<"a", NL, " ", "a", NL, " ", "a">>}
FileNames == {"f.md"}

\* the identifiers generateId returns during one parse of an upload
FreshIds(n) == [k \in 1..n |-> <<"id", k>>]

\* handleNodeUpdate('', {}) passes the empty string as node id (line 446)
NoNodeId == <<"", 0>>

\* lines 273-282
NewSession(content, fileName, t) ==
  [id          |-> t,
   fileName    |-> IF fileName = "" THEN "New Mind Map" ELSE fileName,
   data        |-> parseMarkdownToTree(content,
                     FreshIds(Len(NonBlankLines(content)))),
   difficulty  |-> BASIC,
   nodeStates  |-> <<>>,
   lastUpdated |-> t,
   progress    |-> 0]

\* lines 247-250
saveSessions(updated) ==
  /\ sessions' = updated
  /\ storage' = [saved |-> TRUE, list |-> updated]

\* Date.now(): the clock, which may have advanced since it was last read
DateNow(t) == t \in now..MaxTime /\ now' = t

\* one more event is handled
Event == events < MaxEvents /\ events' = events + 1

\* the dashboard is rendered and its handlers can be invoked (line 466)
OnDashboard == view = "dashboard" /\ mpc = "mounted"

\* lines 272-287, `sessions` being the value the handler closed over
handleUpload(content, fileName, closedSessions) ==
  \E t \in now..MaxTime :
    LET newSession == NewSession(content, fileName, t)
    IN  /\ DateNow(t)
        /\ saveSessions(<<newSession>> \o closedSessions)
        /\ activeSession' = newSession
        /\ view' = "study"

\* the "Load Demo" button (lines 347-367)
LoadDemo ==
  /\ OnDashboard
  /\ Len(sessions) < MaxSessions
  /\ handleUpload(DemoContent, DemoName, sessions)
  /\ Event
  /\ UNCHANGED <<globalExpand, readers, mpc, parseVars, calcVars, nodeVars>>

\* the file input's onChange (lines 381-388): the reader's onload keeps the
\* handleUpload of this render, and with it this render's `sessions`
ChooseFile ==
  /\ OnDashboard
  /\ Cardinality(readers) < MaxReaders
  /\ Len(sessions) < MaxSessions
  /\ \E content \in FileContents, name \in FileNames :
       readers' = readers \cup
         {[content |-> content, fileName |-> name, sessions |-> sessions]}
  /\ Event
  /\ UNCHANGED <<view, sessions, activeSession, globalExpand, storage, now,
                 mpc, parseVars, calcVars, nodeVars>>

\* reader.onload (line 385)
FileLoaded ==
  \E r \in readers :
    /\ readers' = readers \ {r}
    /\ handleUpload(r.content, r.fileName, r.sessions)
    /\ Event
    /\ UNCHANGED <<globalExpand, mpc, parseVars, calcVars, nodeVars>>

RECURSIVE RemoveId(_, _)
RemoveId(list, id) ==
  IF list = <<>> THEN <<>>
  ELSE IF Head(list).id # id
       THEN <<Head(list)>> \o RemoveId(Tail(list), id)
       ELSE RemoveId(Tail(list), id)

\* the delete button of a history row (line 408)
DeleteSession ==
  /\ OnDashboard
  /\ \E k \in 1..Len(sessions) :
       saveSessions(RemoveId(sessions, sessions[k].id))
  /\ Event
  /\ UNCHANGED <<view, activeSession, globalExpand, readers, now, mpc, parseVars, calcVars, nodeVars>>

\* mutant of Practice: the session is opened with an empty store, as a
\* fresh upload would be
PracticeFresh ==
  /\ OnDashboard
  /\ \E k \in 1..Len(sessions) :
       activeSession' =
         [sessions[k] EXCEPT !.nodeStates = <<>>, !.progress = 0]
  /\ view' = "study"
  /\ Event
  /\ UNCHANGED <<sessions, globalExpand, storage, readers, now, mpc,
                 parseVars, calcVars, nodeVars>>

\* the practice button of a history row (line 409)
Practice ==
  /\ OnDashboard
  /\ \E k \in 1..Len(sessions) : activeSession' = sessions[k]
  /\ view' = "study"
  /\ Event
  /\ UNCHANGED <<sessions, globalExpand, storage, readers, now, mpc, parseVars, calcVars, nodeVars>>

\* the nodes MindMapNode renders: a node's children are rendered unless the
\* node is collapsed (lines 219-225)
RECURSIVE RenderedUnder(_, _)
RenderedUnder(session, i) ==
  {i} \cup
    IF StateOf(session.nodeStates, session.data[i].id).isCollapsed THEN {}
    ELSE UNION {RenderedUnder(session, c) : c \in ChildSet(session.data, i)}

Rendered(session) == RenderedUnder(session, 1)

\* mutant of NextNodeStates: the empty node id leaves the store as it is
NextNodeStatesKeep(nodeStates, nodeId, stateUpdate) ==
  IF nodeId # NoNodeId
  THEN (nodeId :> (stateUpdate @@ StateOf(nodeStates, nodeId))) @@ nodeStates
  ELSE nodeStates

\* mutant of NextNodeStates: the update is merged into the default state
NextNodeStatesFromDefault(nodeStates, nodeId, stateUpdate) ==
  IF nodeId # NoNodeId
  THEN (nodeId :> (stateUpdate @@ DefaultNodeState)) @@ nodeStates
  ELSE <<>>

\* mutant of NextNodeStates: the new store holds the updated entry alone
NextNodeStatesOnlyEntry(nodeStates, nodeId, stateUpdate) ==
  IF nodeId # NoNodeId
  THEN nodeId :> (stateUpdate @@ StateOf(nodeStates, nodeId))
  ELSE <<>>

\* lines 291-297: the next nodeStates
NextNodeStates(nodeStates, nodeId, stateUpdate) ==
  IF nodeId # NoNodeId
  THEN (nodeId :> (stateUpdate @@ StateOf(nodeStates, nodeId))) @@ nodeStates
  ELSE <<>>

\* mutant of handleNodeUpdate: progress is not recomputed
handleNodeUpdateStale(nodeId, stateUpdate) ==
  \E t \in now..MaxTime :
    /\ DateNow(t)
    /\ activeSession' =
         [activeSession EXCEPT
            !.nodeStates = NextNodeStates(activeSession.nodeStates, nodeId,
                                          stateUpdate),
            !.lastUpdated = t]

\* lines 291-304: the session handleNodeUpdate makes of `session` when
\* Date.now() returns t
finalSession(session, nodeId, stateUpdate, t) ==
  updateProgress(
    [session EXCEPT
       !.nodeStates = NextNodeStates(session.nodeStates, nodeId, stateUpdate),
       !.lastUpdated = t])

\* lines 289-306
handleNodeUpdate(nodeId, stateUpdate) ==
  \E t \in now..MaxTime :
    /\ DateNow(t)
    /\ activeSession' = finalSession(activeSession, nodeId, stateUpdate, t)

InStudy == view = "study" /\ activeSession # Null

\* what a handleNodeUpdate event leaves alone
StudyFrame ==
  /\ Event
  /\ UNCHANGED <<view, sessions, globalExpand, storage, readers, mpc, parseVars, calcVars, nodeVars>>

\* checkAnswer with a matching input (lines 140-146), on a rendered input
CheckAnswer ==
  /\ InStudy
  /\ \E i \in Rendered(activeSession) :
       /\ isMasked(activeSession, i)
       /\ handleNodeUpdate(activeSession.data[i].id, [isSolved |-> TRUE])
  /\ StudyFrame

\* mutant of nextCount: the count is passed on as it is
nextCountSame(nodeState) == nodeState.hintCount

\* line 154
nextCount(nodeState) == nodeState.hintCount + 1

\* provideHint (lines 153-161), on a rendered input
ProvideHint ==
  /\ InStudy
  /\ \E i \in Rendered(activeSession) :
       LET nodeState ==
             StateOf(activeSession.nodeStates, activeSession.data[i].id)
       IN  /\ isMasked(activeSession, i)
           /\ nodeState.hintCount < MaxHints
           /\ handleNodeUpdate(activeSession.data[i].id,
                               [hintCount |-> nextCount(nodeState)])
  /\ StudyFrame

\* the partial state of the star button (line 211)
starUpdate(session, id) ==
  [isStarred |-> ~StateOf(session.nodeStates, id).isStarred]

\* the star button (lines 210-215)
ToggleStar ==
  /\ InStudy
  /\ \E i \in Rendered(activeSession) :
       handleNodeUpdate(activeSession.data[i].id,
                        starUpdate(activeSession, activeSession.data[i].id))
  /\ StudyFrame

\* the collapse button, rendered for nodes with children (lines 176-183)
ToggleCollapse ==
  /\ InStudy
  /\ \E i \in Rendered(activeSession) :
       LET nodeState ==
             StateOf(activeSession.nodeStates, activeSession.data[i].id)
       IN  /\ Len(activeSession.data[i].children) > 0
           /\ handleNodeUpdate(activeSession.data[i].id,
                               [isCollapsed |-> ~nodeState.isCollapsed])
  /\ StudyFrame

\* the reset button, confirmed (line 446)
ResetProgress ==
  /\ InStudy
  /\ handleNodeUpdate(NoNodeId, <<>>)
  /\ StudyFrame

\* mutant of setDifficulty: progress is not recomputed
setDifficultyStale(level) ==
  activeSession' = [activeSession EXCEPT !.difficulty = level]

\* lines 308-312
setDifficulty(level) ==
  activeSession' = updateProgress([activeSession EXCEPT !.difficulty = level])

\* the level buttons (lines 431-433)
SetDifficulty ==
  /\ InStudy
  /\ \E level \in DifficultyLevel : setDifficulty(level)
  /\ Event
  /\ UNCHANGED <<view, sessions, globalExpand, storage, readers, now,
                 mpc, parseVars, calcVars, nodeVars>>

\* mutant of traverse: every entry is made from the default state
RECURSIVE traverseFromDefault(_, _, _, _)
traverseFromDefault(newNodeStates, t, order, collapsed) ==
  IF order = <<>> THEN newNodeStates
  ELSE traverseFromDefault(
         (t[Head(order)].id :> [DefaultNodeState EXCEPT !.isCollapsed = collapsed])
           @@ newNodeStates,
         t, Tail(order), collapsed)

\* the traversal of lines 319-324: every node of the tree gets an entry
RECURSIVE traverse(_, _, _, _)
traverse(newNodeStates, t, order, collapsed) ==
  IF order = <<>> THEN newNodeStates
  ELSE LET id == t[Head(order)].id
           currentState == StateOf(newNodeStates, id)
       IN  traverse((id :> [currentState EXCEPT !.isCollapsed = collapsed])
                      @@ newNodeStates,
                    t, Tail(order), collapsed)

\* lines 314-326
toggleGlobalExpand ==
  LET newState == ~globalExpand
  IN  /\ globalExpand' = newState
      /\ activeSession' =
           [activeSession EXCEPT
              !.nodeStates = traverse(activeSession.nodeStates,
                                      activeSession.data,
                                      [k \in NodesOf(activeSession.data) |-> k],
                                      ~newState)]

\* the expand button (line 444)
ToggleGlobalExpand ==
  /\ InStudy
  /\ toggleGlobalExpand
  /\ Event
  /\ UNCHANGED <<view, sessions, storage, readers, now, mpc, parseVars, calcVars, nodeVars>>

\* sessions.map(s => s.id === activeSession.id ? activeSession : s)
ReplaceById(list, session) ==
  [k \in 1..Len(list) |->
     IF list[k].id = session.id THEN session ELSE list[k]]

\* mutant of handleSaveAndExit: the collection is left as it was
handleSaveAndExitNoSave ==
  /\ UNCHANGED <<sessions, storage>>
  /\ activeSession' = Null
  /\ view' = "dashboard"

\* lines 328-335
handleSaveAndExit ==
  /\ IF activeSession # Null
     THEN saveSessions(ReplaceById(sessions, activeSession))
     ELSE UNCHANGED <<sessions, storage>>
  /\ activeSession' = Null
  /\ view' = "dashboard"

\* the exit button (line 429)
SaveAndExit ==
  /\ InStudy
  /\ handleSaveAndExit
  /\ Event
  /\ UNCHANGED <<globalExpand, readers, now, mpc, parseVars, calcVars, nodeVars>>

Init == InitApp /\ IdleParse /\ IdleCalc /\ IdleNode

Next ==
  \/ LoadDemo
  \/ ChooseFile
  \/ FileLoaded
  \/ DeleteSession
  \/ Practice
  \/ CheckAnswer
  \/ ProvideHint
  \/ ToggleStar
  \/ ToggleCollapse
  \/ ResetProgress
  \/ SetDifficulty
  \/ ToggleGlobalExpand
  \/ SaveAndExit

Spec == Init /\ [][Next]_vars

(***************************************************************************)
(* The App component mounted over what an earlier page load left in        *)
(* localStorage: nothing, a list saveSessions wrote, or a text the         *)
(* application did not write.                                              *)
(***************************************************************************)
\* sessions of an earlier page load, at clock values 0 and 1
EarlierDemo == NewSession(DemoContent, DemoName, 0)
EarlierFile == NewSession(<<"a", NL, " ", "a", NL, " ", "a">>, "f.md", 1)

\* the lists an earlier page load may have saved (line 249), newest first
EarlierLists == {<<>>, <<EarlierFile>>, <<EarlierFile, EarlierDemo>>}

\* texts under STORAGE_KEY that are no saved list: the empty string, a text
\* that is not JSON, and the JSON texts of an object and of null
ForeignTexts == {"", "{", "{}", "null"}

StoredBlobs ==
  {[saved |-> FALSE, list |-> <<>>]}
    \cup {[saved |-> TRUE, list |-> l] : l \in EarlierLists}
    \cup {[saved |-> TRUE, list |-> <<>>, raw |-> r] : r \in ForeignTexts}

\* localStorage.getItem(STORAGE_KEY) is truthy (lines 241-242)
HasSaved(blob) ==
  /\ blob.saved
  /\ "raw" \in DOMAIN blob => blob.raw # ""

\* JSON.parse(saved) (line 243): "threw", "array" or "other"
JSONParseKind(blob) ==
  IF "raw" \notin DOMAIN blob THEN "array"
  ELSE IF blob.raw \in {"{}", "null"} THEN "other"
  ELSE "threw"

InitLoad ==
  /\ view = "dashboard"
  /\ sessions = <<>>
  /\ activeSession = Null
  /\ globalExpand = TRUE
  /\ storage \in StoredBlobs
  /\ readers = {}
  /\ now = 1
  /\ events = 0
  /\ mpc = "initial"
  /\ IdleParse
  /\ IdleCalc
  /\ IdleNode

\* the mount effect (lines 240-245).  A parsed value that is no array is
\* handed to setSessions all the same; the render that follows throws at
\* sessions.map (line 398) and the component is unmounted: mpc = "failed",
\* with `sessions` left out of the model from then on.
Mount ==
  /\ mpc = "initial"
  /\ IF HasSaved(storage) /\ JSONParseKind(storage) = "array"
     THEN sessions' = storage.list
     ELSE sessions' = sessions
  /\ IF HasSaved(storage) /\ JSONParseKind(storage) = "other"
     THEN mpc' = "failed"
     ELSE mpc' = "mounted"
  /\ Event
  /\ UNCHANGED <<view, activeSession, globalExpand, storage, readers, now,
                 parseVars, calcVars, nodeVars>>

NextLoad == Mount \/ Next

SpecLoad == InitLoad /\ [][NextLoad]_vars

(***************************************************************************)
(* updateProgress as a function of its argument: the sessions it is given  *)
(* are those of a flat outline (a root line and n lines below it at one    *)
(* indentation) and of a chain (each line nested in the one before), with  *)
(* the last k nodes solved and the root starred.                           *)
(***************************************************************************)
RECURSIVE FlatOutline(_)
FlatOutline(n) ==
  IF n = 0 THEN <<"a">> ELSE FlatOutline(n - 1) \o <<NL, " ", "a">>

RECURSIVE ChainOutline(_)
ChainOutline(n) ==
  IF n = 0 THEN <<"a">> ELSE ChainOutline(n - 1) \o <<NL>> \o Spaces(n) \o <<"a">>

SolvedState == [DefaultNodeState EXCEPT !.isSolved = TRUE]
StarredState == [DefaultNodeState EXCEPT !.isStarred = TRUE]

StudiedSession(content, n, k, d) ==
  LET ids == FreshIds(n + 1)
  IN  [id          |-> 1,
       fileName    |-> "f.md",
       data        |-> parseMarkdownToTree(content, ids),
       difficulty  |-> d,
       nodeStates  |-> [id \in {ids[1]} \cup {ids[j] : j \in (n + 2 - k)..(n + 1)}
                          |-> IF id = ids[1] THEN StarredState ELSE SolvedState],
       lastUpdated |-> 1,
       progress    |-> 0]

InitProgress ==
  /\ cpc = "begin"
  /\ \E n \in 0..MaxBelow, d \in DifficultyLevel, flat \in BOOLEAN :
       \E k \in 0..n :
         sessionData =
           StudiedSession(IF flat THEN FlatOutline(n) ELSE ChainOutline(n),
                          n, k, d)
  /\ returned = Null
  /\ InitApp
  /\ IdleParse
  /\ IdleNode

\* lines 265-270
UpdateProgressCall ==
  /\ cpc = "begin"
  /\ returned' = updateProgress(sessionData)
  /\ cpc' = "done"
  /\ UNCHANGED <<sessionData, parseVars, appVars, nodeVars>>

NextProgress == UpdateProgressCall

SpecProgress == InitProgress /\ [][NextProgress]_vars

(***************************************************************************)
(* One MindMapNode component (lines 112-228) of the study view that an     *)
(* upload has just opened: its input, its error flag and the timeouts it   *)
(* has set.                                                                *)
(***************************************************************************)
\* String.prototype.toLowerCase(), on the letters of the model
UpperCase == <<"A", "B", "E", "T">>
LowerCase == <<"a", "b", "e", "t">>

toLowerCase(s) ==
  [k \in 1..Len(s) |->
     IF \E j \in 1..Len(UpperCase) : UpperCase[j] = s[k]
     THEN LowerCase[CHOOSE j \in 1..Len(UpperCase) : UpperCase[j] = s[k]]
     ELSE s[k]]

\* s.replace(/\s+/g, '')
RemoveSpaces(s) ==
  LET NotSpace(c) == ~IsSpace(c)
  IN  SelectSeq(s, NotSpace)

\* mutant of cleanInput: the case of the input is kept
cleanInputKeepCase(value) == RemoveSpaces(value)

\* line 141
cleanInput(value) == toLowerCase(RemoveSpaces(value))

\* line 142
cleanAnswer(n) == toLowerCase(RemoveSpaces(n.text))

\* what the user may type into the input
TypedInputs ==
  {<<>>, <<"a", "b">>, <<" ", "A", " ", "B", " ">>, <<"a", " ", "b", "b">>,
   <<"b">>, <<"B", " ">>}

\* what an uploaded file may hold: the demo outline, or a root with one
\* child whose label has two words
NodeContents == {DemoContent, <<"r", NL, " ", "A", " ", "b">>}

InitNode ==
  /\ activeSession \in {NewSession(c, "f.md", 1) : c \in NodeContents}
  /\ sessions = <<activeSession>>
  /\ storage = [saved |-> TRUE, list |-> sessions]
  /\ view = "study"
  /\ globalExpand = TRUE
  /\ readers = {}
  /\ now = 1
  /\ events = 0
  /\ mpc = "mounted"
  /\ node \in NodesOf(activeSession.data)
  /\ inputValue = <<>>
  /\ isError = FALSE
  /\ timers = 0
  /\ IdleParse
  /\ IdleCalc

\* the input and the hint button of the component are rendered (line 185)
InputRendered ==
  /\ InStudy
  /\ node \in Rendered(activeSession)
  /\ isMasked(activeSession, node)

\* what an event of the component leaves alone
ComponentFrame ==
  /\ Event
  /\ UNCHANGED <<view, sessions, globalExpand, storage, readers, mpc, node,
                 parseVars, calcVars>>

\* lines 135-138
handleInputChange ==
  /\ InputRendered
  /\ \E value \in TypedInputs : inputValue' = value
  /\ isError' = FALSE
  /\ ComponentFrame
  /\ UNCHANGED <<activeSession, now, timers>>

\* lines 140-151, on the Enter key (line 192)
checkAnswer ==
  /\ InputRendered
  /\ IF cleanInput(inputValue) = cleanAnswer(activeSession.data[node])
     THEN /\ handleNodeUpdate(activeSession.data[node].id, [isSolved |-> TRUE])
          /\ isError' = FALSE
          /\ timers' = timers
     ELSE /\ timers < MaxTimers
          /\ isError' = TRUE
          /\ timers' = timers + 1
          /\ UNCHANGED <<activeSession, now>>
  /\ ComponentFrame
  /\ UNCHANGED inputValue

\* the callback of line 149
ErrorTimeout ==
  /\ timers > 0
  /\ timers' = timers - 1
  /\ isError' = FALSE
  /\ UNCHANGED <<node, inputValue, parseVars, appVars, calcVars>>

\* lines 157-159
hintText(t, count) ==
  IF count = 1 THEN SubSeq(t, 1, Min(1, Len(t)))
  ELSE IF count = 2 THEN SubSeq(t, 1, Min(3, Len(t)))
  ELSE t

\* lines 153-161
provideHint ==
  /\ InputRendered
  /\ LET nodeState ==
           StateOf(activeSession.nodeStates, activeSession.data[node].id)
     IN  /\ nodeState.hintCount < MaxHints
         /\ handleNodeUpdate(activeSession.data[node].id,
                             [hintCount |-> nextCount(nodeState)])
         /\ inputValue' = hintText(activeSession.data[node].text,
                                   nextCount(nodeState))
  /\ ComponentFrame
  /\ UNCHANGED <<isError, timers>>

NextNode ==
  \/ handleInputChange
  \/ checkAnswer
  \/ ErrorTimeout
  \/ provideHint
  \/ SetDifficulty
  \/ ResetProgress

SpecNode == InitNode /\ [][NextNode]_vars

(***************************************************************************)
(* Tree vocabulary of the properties.                                      *)
(***************************************************************************)
ParentsOf(t, i) == {j \in NodesOf(t) : i \in ChildSet(t, j)}

\* number of ancestors of node i; a parent is allocated before its child
RECURSIVE Depth(_, _)
Depth(t, i) ==
  IF ParentsOf(t, i) = {} THEN 0
  ELSE 1 + Depth(t, CHOOSE j \in ParentsOf(t, i) : TRUE)

RECURSIVE PreOrder(_, _)
RECURSIVE PreOrderAll(_, _)
PreOrder(t, i) == <<i>> \o PreOrderAll(t, t[i].children)
PreOrderAll(t, cs) ==
  IF cs = <<>> THEN <<>> ELSE PreOrder(t, Head(cs)) \o PreOrderAll(t, Tail(cs))

Iota(n) == [k \in 1..n |-> k]

(***************************************************************************)
(* C1: when parsing has finished, the root of the returned tree has level  *)
(* 0 and every node has isLeaf true exactly when it has no children.       *)
(***************************************************************************)
C1_RootLevelAndIsLeaf ==
  ppc = "done" =>
    /\ Len(tree) >= 1
    /\ tree[1].level = 0
    /\ ParentsOf(tree, 1) = {}
    /\ \A i \in NodesOf(tree) : tree[i].isLeaf = (Len(tree[i].children) = 0)

\* a finished parse whose root line was dedented under (the root got a child
\* through the empty-stack branch) and that has an inner node and a leaf
C1_Witness ==
  /\ ppc = "done"
  /\ Len(lines) >= 3
  /\ \E i \in 2..Len(lines) : getIndent(lines[i]) <= getIndent(lines[1])
  /\ \E i \in 2..Len(tree) : ~tree[i].isLeaf
  /\ \E i \in 2..Len(tree) : tree[i].isLeaf

(***************************************************************************)
(* C2: in the returned tree every node's level equals its number of        *)
(* ancestors.  The code breaks this after a line has emptied the stack:    *)
(* the root is not pushed back, so the next nested line gets level 1 at    *)
(* depth 2.                                                                *)
(***************************************************************************)
C2_LevelIsDepth ==
  ppc = "done" => \A i \in NodesOf(tree) : tree[i].level = Depth(tree, i)

(***************************************************************************)
(* C3 as claimed: a non-first line whose indentation equals the one        *)
(* recorded for any node N on the stack, the root included, becomes a      *)
(* sibling of N and not a child of N.                                      *)
(***************************************************************************)
TieStep(k) ==
  /\ ppc = "loop"
  /\ root # 0
  /\ cursor <= Len(lines)
  /\ cursor' = cursor + 1
  /\ k \in 1..Len(stack)
  /\ stack[k].indent = getIndent(lines[cursor])

SiblingOf(t, new, n) ==
  /\ new \notin ChildSet(t, n)
  /\ ParentsOf(t, new) # {}
  /\ ParentsOf(t, new) = ParentsOf(t, n)

C3_TieIsSiblingAnyEntry ==
  [][\A k \in 1..Len(stack) :
       TieStep(k) => SiblingOf(heap', Len(heap'), stack[k].node)]_vars

(***************************************************************************)
(* C3 amended: a non-first line whose indentation equals the one recorded  *)
(* for a node N on the stack other than the root becomes a sibling of N    *)
(* and not a child of N; a line that ties with the root line on the stack  *)
(* becomes a child of the root.                                            *)
(***************************************************************************)
C3_TieIsSiblingBelowRoot ==
  [][\A k \in 1..Len(stack) :
       TieStep(k) =>
         IF stack[k].node = root
         THEN ParentsOf(heap', Len(heap')) = {root}
         ELSE SiblingOf(heap', Len(heap'), stack[k].node)]_vars

\* the line just handled ties with an earlier non-root node that had a child
\* (so it was on the stack below the top) and is now its sibling
C3_Witness ==
  /\ ppc = "loop"
  /\ cursor > 3
  /\ \E n \in 2..(cursor - 2) :
       /\ getIndent(lines[n]) = getIndent(lines[cursor - 1])
       /\ (cursor - 2) \in ChildSet(heap, n)
       /\ SiblingOf(heap, cursor - 1, n)

(***************************************************************************)
(* C4: for a text with at least one non-blank line the returned tree has   *)
(* exactly one node per non-blank line, carrying that line's label, and    *)
(* the pre-order traversal from the root visits them in line order.        *)
(***************************************************************************)
C4_OneNodePerLineInOrder ==
  (ppc = "done" /\ Len(lines) >= 1) =>
    /\ Len(tree) = Len(lines)
    /\ PreOrder(tree, 1) = Iota(Len(lines))
    /\ \A i \in NodesOf(tree) : tree[i].text = cleanText(lines[i])

\* a finished parse with a line dedented to or below the root's indentation
\* followed by a line nested under it
C4_Witness ==
  /\ ppc = "done"
  /\ Len(lines) = 4
  /\ \E i \in 2..3 :
       /\ getIndent(lines[i]) <= getIndent(lines[1])
       /\ (i + 1) \in ChildSet(tree, i)

(***************************************************************************)
(* C5: for every parsed tree, node and difficulty, shouldMask is false on  *)
(* the root; on any other node it is true exactly when (BASIC and the node *)
(* has no children) or (INTERMEDIATE and the node or one of its children   *)
(* has no children) or MASTER; and the predicate that counts required      *)
(* nodes agrees with it.                                                   *)
(***************************************************************************)
HasNoChildren(t, i) == Len(t[i].children) = 0

MaskRule(t, i, d) ==
  /\ i # 1
  /\ \/ d = BASIC /\ HasNoChildren(t, i)
     \/ d = INTERMEDIATE
        /\ (HasNoChildren(t, i) \/ \E c \in ChildSet(t, i) : HasNoChildren(t, c))
     \/ d = MASTER

C5_MaskPolicy ==
  ppc = "done" =>
    \A i \in NodesOf(tree), d \in DifficultyLevel :
      /\ shouldMask(tree, i, d) = MaskRule(tree, i, d)
      /\ shouldMaskNode(tree, i, d) = shouldMask(tree, i, d)

\* a parsed tree with an inner node whose only child is an inner node (masked
\* at MASTER only), an inner node with a childless child, and a childless node
C5_Witness ==
  /\ ppc = "done"
  /\ \E i \in 2..Len(tree) :
       /\ ~HasNoChildren(tree, i)
       /\ \A c \in ChildSet(tree, i) : ~HasNoChildren(tree, c)
       /\ ~shouldMask(tree, i, INTERMEDIATE)
       /\ shouldMask(tree, i, MASTER)
  /\ \E i \in 2..Len(tree) :
       /\ ~HasNoChildren(tree, i)
       /\ shouldMask(tree, i, INTERMEDIATE)
       /\ ~shouldMask(tree, i, BASIC)

(***************************************************************************)
(* C6: on every node of every parsed tree, masked at BASIC implies masked  *)
(* at INTERMEDIATE implies masked at MASTER, and the number of required    *)
(* nodes does not decrease from BASIC to INTERMEDIATE to MASTER.           *)
(***************************************************************************)
C6_MaskMonotonic ==
  ppc = "done" =>
    /\ \A i \in NodesOf(tree) :
         /\ shouldMask(tree, i, BASIC) => shouldMask(tree, i, INTERMEDIATE)
         /\ shouldMask(tree, i, INTERMEDIATE) => shouldMask(tree, i, MASTER)
    /\ calculateRequiredNodes(tree, 1, BASIC)
         <= calculateRequiredNodes(tree, 1, INTERMEDIATE)
    /\ calculateRequiredNodes(tree, 1, INTERMEDIATE)
         <= calculateRequiredNodes(tree, 1, MASTER)

\* a parsed tree whose required count grows strictly with each tier
C6_Witness ==
  /\ ppc = "done"
  /\ 0 < calculateRequiredNodes(tree, 1, BASIC)
  /\ calculateRequiredNodes(tree, 1, BASIC)
       < calculateRequiredNodes(tree, 1, INTERMEDIATE)
  /\ calculateRequiredNodes(tree, 1, INTERMEDIATE)
       < calculateRequiredNodes(tree, 1, MASTER)

(***************************************************************************)
(* Session vocabulary of the properties.                                   *)
(***************************************************************************)
Stored == {sessions[k] : k \in 1..Len(sessions)}

AllSessions == Stored \cup (IF activeSession # Null THEN {activeSession} ELSE {})

RequiredSet(s) == {i \in NodesOf(s.data) : shouldMask(s.data, i, s.difficulty)}

SolvedEntries(s) == {k \in DOMAIN s.nodeStates : s.nodeStates[k].isSolved}

SolvedNodes(s) ==
  {i \in NodesOf(s.data) : StateOf(s.nodeStates, s.data[i].id).isSolved}

\* p is 100 * num / den rounded to the nearest integer (a half upwards) and
\* cut off at 100
IsClampedPercent(p, num, den) ==
  /\ p \in 0..100
  /\ IF 200 * num >= 199 * den
     THEN p = 100
     ELSE 2 * den * p - den <= 200 * num /\ 200 * num < 2 * den * p + den

(***************************************************************************)
(* C7 as claimed: the progress updateProgress computes is                  *)
(* min(100, round(100 * solved / max(1, required))), with required the     *)
(* number of nodes shouldMask holds for and solved the number of store     *)
(* entries with isSolved; an integer in 0..100, also when nothing is       *)
(* required; one of two required nodes solved gives 50.                    *)
(***************************************************************************)
RequiredOf(s) == Cardinality(RequiredSet(s))
SolvedOf(s) == Cardinality(SolvedEntries(s))
DenominatorOf(s) == IF RequiredOf(s) = 0 THEN 1 ELSE RequiredOf(s)

C7_ProgressIsRoundedRatio ==
  cpc = "done" =>
    /\ IsClampedPercent(returned.progress, SolvedOf(sessionData),
                        DenominatorOf(sessionData))
    /\ (RequiredOf(sessionData) = 2 /\ SolvedOf(sessionData) = 1)
         => returned.progress = 50

(***************************************************************************)
(* C7 amended: the progress is an integer in 0..100, also when nothing is  *)
(* required, and one of two required nodes solved gives 50; it equals      *)
(* min(100, round(100 * solved / max(1, required))) whenever               *)
(* 100 * solved / max(1, required) is not an integer and a half, and is    *)
(* that value or one less when it is (the double product of line 268 may   *)
(* fall below the half: 23 of 40 gives 57).                                *)
(***************************************************************************)
ExactPercent(num, den) == Min(100, (200 * num + den) \div (2 * den))

OnAHalf(num, den) == (200 * num) % (2 * den) = den

C7_ProgressIsDoubleRounded ==
  cpc = "done" =>
    LET p == returned.progress
        solved == SolvedOf(sessionData)
        den == DenominatorOf(sessionData)
    IN  /\ p \in 0..100
        /\ returned = [sessionData EXCEPT !.progress = p]
        /\ IF OnAHalf(solved, den)
           THEN p \in {ExactPercent(solved, den) - 1, ExactPercent(solved, den)}
           ELSE p = ExactPercent(solved, den)
        /\ (RequiredOf(sessionData) = 2 /\ solved = 1) => p = 50
        /\ (RequiredOf(sessionData) = 0 /\ solved = 0) => p = 0

\* the call has returned 57 for 23 solved of 40 required
C7_Witness ==
  /\ cpc = "done"
  /\ RequiredOf(sessionData) = 40
  /\ SolvedOf(sessionData) = 23
  /\ returned.progress = 57

(***************************************************************************)
(* C8: a handleNodeUpdate step that sets isSolved on one node of the       *)
(* active session, tree and difficulty staying as they are, never lowers   *)
(* the session's progress.                                                 *)
(***************************************************************************)
SolveStep ==
  /\ activeSession # Null
  /\ activeSession' # Null
  /\ activeSession'.id = activeSession.id
  /\ activeSession'.data = activeSession.data
  /\ activeSession'.difficulty = activeSession.difficulty
  /\ \E i \in NodesOf(activeSession.data) :
       activeSession'.nodeStates =
         NextNodeStates(activeSession.nodeStates, activeSession.data[i].id,
                        [isSolved |-> TRUE])

C8_ProgressMonotone ==
  [][SolveStep => activeSession'.progress >= activeSession.progress]_vars

\* two nodes have been solved one after the other: the first solve took the
\* progress to 50, the second to 100
C8_Witness ==
  /\ activeSession # Null
  /\ Cardinality(RequiredSet(activeSession)) = 2
  /\ Cardinality(SolvedEntries(activeSession)) = 2
  /\ activeSession.progress = 100

(***************************************************************************)
(* C9: in every reachable state the cached progress of the active session  *)
(* and of every session of the collection is what the progress calculator  *)
(* gives for that session's tree, difficulty and nodeStates.               *)
(***************************************************************************)
C9_ProgressCacheFresh ==
  \A s \in AllSessions : s.progress = updateProgress(s).progress

\* a session solved in part at a raised difficulty, saved and reopened, with
\* entries that the global toggle or a star created
C9_Witness ==
  /\ activeSession # Null
  /\ activeSession \in Stored
  /\ activeSession.difficulty # BASIC
  /\ activeSession.progress > 0

(***************************************************************************)
(* C10: a node solved in a session stays solved, and is hidden at no       *)
(* difficulty, over every step other than the full reset and an upload:    *)
(* difficulty changes, star, collapse and hint updates, the global toggle, *)
(* exit and reopen.  The current versions of a session are the active      *)
(* session if it has that id, otherwise the stored ones with that id.      *)
(***************************************************************************)
Current(active, list, id) ==
  IF active # Null /\ active.id = id THEN {active}
  ELSE {list[k] : k \in {j \in 1..Len(list) : list[j].id = id}}

KeepsSolved(x, y) ==
  /\ y.data = x.data
  /\ \A i \in SolvedNodes(x) :
       /\ i \in SolvedNodes(y)
       /\ \A d \in DifficultyLevel : ~isMasked([y EXCEPT !.difficulty = d], i)

SolvedIsSticky ==
  \A id \in 1..MaxTime :
    \A y \in Current(activeSession', sessions', id) :
      \E x \in Current(activeSession, sessions, id) : KeepsSolved(x, y)

C10_SolvedSticky ==
  [][~(ResetProgress \/ LoadDemo \/ FileLoaded) => SolvedIsSticky]_vars

\* a node solved at a raised difficulty is still solved, and shown, after the
\* session was saved, reopened and set back to BASIC
C10_Witness ==
  /\ activeSession # Null
  /\ activeSession \in Stored
  /\ activeSession.difficulty # BASIC
  /\ \E i \in SolvedNodes(activeSession) :
       /\ shouldMask(activeSession.data, i, activeSession.difficulty)
       /\ ~isMasked(activeSession, i)

(***************************************************************************)
(* Properties of the session collection.                                   *)
(***************************************************************************)
IdsOf(list) == {list[k].id : k \in 1..Len(list)}

\* the active session is an entry of the collection, by id
ActiveInCollection ==
  activeSession # Null => activeSession.id \in IdsOf(sessions)

(***************************************************************************)
(* C11: the full reset (handleNodeUpdate with the empty node id) leaves    *)
(* the active session with no nodeStates entry and with progress 0,        *)
(* whatever the store, the tree and the difficulty were; the tree, the     *)
(* difficulty, the id and the file name are unchanged.                     *)
(***************************************************************************)
C11_ResetClears ==
  [][ResetProgress =>
       /\ DOMAIN activeSession'.nodeStates = {}
       /\ activeSession'.progress = 0
       /\ activeSession'.data = activeSession.data
       /\ activeSession'.difficulty = activeSession.difficulty
       /\ activeSession'.id = activeSession.id
       /\ activeSession'.fileName = activeSession.fileName]_vars

\* a session saved with a solved node and progress was reopened and reset:
\* its only stored copy still has the entries, the active one has none
C11_Witness ==
  /\ activeSession # Null
  /\ Len(sessions) = 1
  /\ sessions[1].id = activeSession.id
  /\ sessions[1].data = activeSession.data
  /\ SolvedEntries(sessions[1]) # {}
  /\ sessions[1].progress > 0
  /\ DOMAIN activeSession.nodeStates = {}
  /\ activeSession.progress = 0

(***************************************************************************)
(* C12: for every node of every reachable active session, pressing the     *)
(* star button flips the node's isStarred, and pressing it twice in a row  *)
(* returns isStarred to its value and leaves the node's isSolved,          *)
(* isCollapsed and hintCount, the state of every other node, and the       *)
(* session's progress as they were.                                        *)
(***************************************************************************)
\* the session after the star button was pressed on id at clock value t
Starred(session, id, t) ==
  finalSession(session, id, starUpdate(session, id), t)

\* every identifier has the same state in the stores of x and y
SameNodeStates(x, y) ==
  \A id \in DOMAIN x.nodeStates \cup DOMAIN y.nodeStates :
    StateOf(x.nodeStates, id) = StateOf(y.nodeStates, id)

C12_StarTwiceRestores ==
  activeSession # Null =>
    \A i \in NodesOf(activeSession.data) :
      \A t1 \in now..MaxTime :
        \A t2 \in t1..MaxTime :
          LET id   == activeSession.data[i].id
              once == Starred(activeSession, id, t1)
              back == Starred(once, id, t2)
          IN  /\ StateOf(once.nodeStates, id).isStarred
                   # StateOf(activeSession.nodeStates, id).isStarred
              /\ SameNodeStates(activeSession, back)
              /\ DOMAIN activeSession.nodeStates \subseteq DOMAIN back.nodeStates
              /\ back.progress = activeSession.progress
              /\ back.data = activeSession.data
              /\ back.difficulty = activeSession.difficulty

\* the star of a leaf was pressed twice: the leaf has an entry holding the
\* default state, which no other operation leaves when the root has none
C12_Witness ==
  /\ activeSession # Null
  /\ activeSession.data[1].id \notin DOMAIN activeSession.nodeStates
  /\ \E i \in NodesOf(activeSession.data) :
       /\ activeSession.data[i].isLeaf
       /\ activeSession.data[i].id \in DOMAIN activeSession.nodeStates
       /\ activeSession.nodeStates[activeSession.data[i].id] = DefaultNodeState
  /\ \E k \in DOMAIN activeSession.nodeStates :
       activeSession.nodeStates[k].isSolved

(***************************************************************************)
(* C13: a hint request raises the hintCount of one node by exactly 1 and   *)
(* leaves every other node's hintCount as it was; across every step that   *)
(* is neither a full reset nor the creation of a session, the hintCount of *)
(* every node of every session, active or stored, is non-negative and not  *)
(* lower than before.                                                      *)
(***************************************************************************)
HintOf(s, id) == StateOf(s.nodeStates, id).hintCount

TreeIds(s) == {s.data[i].id : i \in NodesOf(s.data)}

KeepsHints(x, y) ==
  \A id \in DOMAIN x.nodeStates \cup DOMAIN y.nodeStates \cup TreeIds(x) :
    /\ HintOf(x, id) >= 0
    /\ HintOf(y, id) >= HintOf(x, id)

HintsNeverDecrease ==
  \A sid \in 0..MaxTime :
    \A y \in Current(activeSession', sessions', sid) :
      \E x \in Current(activeSession, sessions, sid) : KeepsHints(x, y)

HintAddsOne ==
  \E id \in TreeIds(activeSession) :
    /\ HintOf(activeSession', id) = HintOf(activeSession, id) + 1
    /\ \A other \in (TreeIds(activeSession)
                      \cup DOMAIN activeSession.nodeStates
                      \cup DOMAIN activeSession'.nodeStates) \ {id} :
         HintOf(activeSession', other) = HintOf(activeSession, other)

Without(list, k) ==
  [j \in 1..(Len(list) - 1) |-> IF j < k THEN list[j] ELSE list[j + 1]]

C14_ExitWritesOneSlot ==
  [][SaveAndExit =>
       /\ \E k \in 1..Len(sessions') :
            /\ sessions'[k] = activeSession
            /\ IF activeSession.id \in IdsOf(sessions)
               THEN /\ Len(sessions') = Len(sessions)
                    /\ sessions[k].id = activeSession.id
                    /\ \A j \in 1..Len(sessions) :
                         j # k => sessions'[j] = sessions[j]
               ELSE Without(sessions', k) = sessions
       /\ storage'.saved
       /\ storage'.list = sessions'
       /\ activeSession' = Null]_vars

(***************************************************************************)
(* C15: deleting a session by id removes it from the collection and from   *)
(* the persisted list and leaves the other entries and their order as      *)
(* they were; an id that is not in the collection is not put back by any   *)
(* later step, except as the id of the session an upload creates in that   *)
(* step; and the active session is an entry of the collection.             *)
(***************************************************************************)
\* the entries of list whose id is not id, in order
OthersOf(list, id) ==
  LET Keep(e) == e.id # id
  IN  SelectSeq(list, Keep)

DeleteRemoves ==
  \E id \in IdsOf(sessions) :
    /\ sessions' = OthersOf(sessions, id)
    /\ storage'.saved
    /\ storage'.list = sessions'

\* no entry comes back: only the head of the list may carry an id that was
\* not in the collection, and only when the step is an upload
NoneComesBack ==
  \A k \in 1..Len(sessions') :
    \/ sessions'[k].id \in IdsOf(sessions)
    \/ k = 1 /\ (LoadDemo \/ FileLoaded) /\ activeSession' = sessions'[1]

C15_DeletedIsTerminal ==
  [][/\ DeleteSession => DeleteRemoves
     /\ NoneComesBack
     /\ activeSession' # Null => activeSession'.id \in IdsOf(sessions')]_vars

(***************************************************************************)
(* C16: in every reachable state the collection is ordered most recent     *)
(* first: of any two entries the earlier one has a lastUpdated greater     *)
(* than or equal to that of the later one.                                 *)
(***************************************************************************)
C16_MostRecentFirst ==
  mpc = "mounted" =>
    \A j \in 1..Len(sessions) :
      \A k \in 1..Len(sessions) :
        j < k => sessions[j].lastUpdated >= sessions[k].lastUpdated

(***************************************************************************)
(* C17: opening a session of the collection makes the stored entry the     *)
(* active session as it is (no parse, the collection untouched), and       *)
(* after an exit every entry a reopen of the same id can pick has the      *)
(* tree, difficulty, nodeStates and progress the active session had at     *)
(* the exit.                                                               *)
(***************************************************************************)
SameStudy(x, y) ==
  /\ x.data = y.data
  /\ x.difficulty = y.difficulty
  /\ x.nodeStates = y.nodeStates
  /\ x.progress = y.progress

C17_ReopenIsSnapshot ==
  [][/\ Practice =>
          /\ \E k \in 1..Len(sessions) : activeSession' = sessions[k]
          /\ sessions' = sessions
          /\ storage' = storage
     /\ SaveAndExit =>
          /\ activeSession.id \in IdsOf(sessions')
          /\ \A k \in 1..Len(sessions') :
               sessions'[k].id = activeSession.id
                 => SameStudy(sessions'[k], activeSession)]_vars

\* a session with a solved and a starred node was saved and reopened
C17_Witness ==
  /\ activeSession # Null
  /\ activeSession \in Stored
  /\ storage.list = sessions
  /\ activeSession.progress > 0
  /\ \E k \in DOMAIN activeSession.nodeStates :
       activeSession.nodeStates[k].isStarred

(***************************************************************************)
(* C18: loading the persisted blob at mount never fails: when the blob is  *)
(* absent or is not the text of a session list the collection is the       *)
(* empty list and the application is operable; when it is a saved list     *)
(* the collection equals it.                                               *)
(***************************************************************************)
IsSavedList(blob) == blob.saved /\ "raw" \notin DOMAIN blob

C18_LoadNeverFails ==
  [][Mount =>
       /\ mpc' = "mounted"
       /\ sessions' = IF IsSavedList(storage) THEN storage.list ELSE <<>>]_vars

(***************************************************************************)
(* C19: parsing is deterministic up to identifiers: whatever identifiers   *)
(* generateId returns, two runs of parseMarkdownToTree on the same text    *)
(* give trees with the same shape and, at each position, the same text,    *)
(* isLeaf and level.                                                       *)
(***************************************************************************)
\* the tree without its identifiers
Anonymous(t) ==
  [k \in 1..Len(t) |->
     [text |-> t[k].text, children |-> t[k].children,
      isLeaf |-> t[k].isLeaf, level |-> t[k].level]]

\* every run, whatever identifiers it drew, returns the tree of the run
\* that draws the identifiers of FreshIds, identifiers apart; so any two
\* runs return the same tree, identifiers apart
C19_ParseDeterministic ==
  ppc = "done" =>
    Anonymous(tree)
      = Anonymous(parseMarkdownToTree(text, FreshIds(Len(lines))))

\* a returned tree of three levels in which generateId gave the root and a
\* later node the same identifier
C19_Witness ==
  /\ ppc = "done"
  /\ Len(tree) >= 3
  /\ tree[1].id # tree[2].id
  /\ tree[3].id = tree[1].id
  /\ \E k \in NodesOf(tree) : tree[k].level >= 2

(***************************************************************************)
(* C20 as claimed: the progress of the active session is the rounded,      *)
(* clamped percentage of the nodes required at the current difficulty      *)
(* that are solved, and it is 100 only when every required node is         *)
(* solved.                                                                 *)
(***************************************************************************)
RequiredSolved(s) ==
  {i \in RequiredSet(s) : StateOf(s.nodeStates, s.data[i].id).isSolved}

C20_ProgressOfRequiredSolved ==
  activeSession # Null =>
    /\ IsClampedPercent(activeSession.progress,
                        Cardinality(RequiredSolved(activeSession)),
                        DenominatorOf(activeSession))
    /\ activeSession.progress = 100
         => RequiredSolved(activeSession) = RequiredSet(activeSession)

(***************************************************************************)
(* C20 amended: the progress of the active session is taken of all solved  *)
(* entries of the store, required at the current difficulty or not: it is  *)
(* 100 as soon as there are at least max(1, required) solved entries,      *)
(* hence whenever a non-empty required set is solved in full, and it is    *)
(* below 100 when the solved entries are fewer than 99.5% of               *)
(* max(1, required).                                                       *)
(***************************************************************************)
C20_ProgressOfAllSolved ==
  activeSession # Null =>
    LET p      == activeSession.progress
        solved == SolvedOf(activeSession)
        den    == DenominatorOf(activeSession)
    IN  /\ p \in 0..100
        /\ solved >= den => p = 100
        /\ 200 * solved < 199 * den => p < 100
        /\ (/\ RequiredSet(activeSession) # {}
            /\ RequiredSolved(activeSession) = RequiredSet(activeSession))
             => p = 100

\* progress is 100 although a node required at the current difficulty is
\* not solved: the solved entry is of a node required at another difficulty
C20_Witness ==
  /\ activeSession # Null
  /\ activeSession.progress = 100
  /\ RequiredSet(activeSession) # {}
  /\ RequiredSolved(activeSession) = {}
  /\ SolvedOf(activeSession) >= 1

(***************************************************************************)
(* C21: a handleNodeUpdate with a non-empty node id X and partial state P  *)
(* (a matching answer, a hint, the star or the collapse button) changes    *)
(* only the entry of X: the fields P names take P's values, the other      *)
(* fields of X keep their value, or the all-false/zero default when X had  *)
(* no entry; the entry of every other id is unchanged and none is removed; *)
(* the tree and the difficulty are unchanged.                              *)
(***************************************************************************)
\* the entry old with the fields P names set to P's values
Merged(old, P) ==
  [f \in DOMAIN old |-> IF f \in DOMAIN P THEN P[f] ELSE old[f]]

\* the step from x to y changed the entry of id by P and nothing else
OnlyEntryChanged(x, y, id, P) ==
  /\ DOMAIN y.nodeStates = DOMAIN x.nodeStates \cup {id}
  /\ y.nodeStates[id]
       = Merged(IF id \in DOMAIN x.nodeStates THEN x.nodeStates[id]
                ELSE [isSolved |-> FALSE, isStarred |-> FALSE,
                      isCollapsed |-> FALSE, hintCount |-> 0],
                P)
  /\ \A other \in DOMAIN x.nodeStates \ {id} :
       y.nodeStates[other] = x.nodeStates[other]
  /\ y.data = x.data
  /\ y.difficulty = x.difficulty

\* the partial states the four handlers pass for a node whose state is old
PartialOf(old) ==
  [check    |-> [isSolved |-> TRUE],
   hint     |-> [hintCount |-> old.hintCount + 1],
   star     |-> [isStarred |-> ~old.isStarred],
   collapse |-> [isCollapsed |-> ~old.isCollapsed]]

\* the step changed one entry by the partial state of handler h
UpdatesOneEntry(h) ==
  \E id \in TreeIds(activeSession) :
    OnlyEntryChanged(activeSession, activeSession', id,
                     PartialOf(StateOf(activeSession.nodeStates, id))[h])

C21_NodeUpdateFrame ==
  [][/\ CheckAnswer => UpdatesOneEntry("check")
     /\ ProvideHint => UpdatesOneEntry("hint")
     /\ ToggleStar => UpdatesOneEntry("star")
     /\ ToggleCollapse => UpdatesOneEntry("collapse")]_vars

\* three nodes were updated in turn, each with another field: the entry of
\* each still holds its own field and the default in the others
C21_Witness ==
  /\ activeSession # Null
  /\ \E a, b, c \in DOMAIN activeSession.nodeStates :
       /\ activeSession.nodeStates[a]
            = [isSolved |-> FALSE, isStarred |-> FALSE,
               isCollapsed |-> TRUE, hintCount |-> 0]
       /\ activeSession.nodeStates[b]
            = [isSolved |-> FALSE, isStarred |-> TRUE,
               isCollapsed |-> FALSE, hintCount |-> 0]
       /\ activeSession.nodeStates[c]
            = [isSolved |-> FALSE, isStarred |-> FALSE,
               isCollapsed |-> FALSE, hintCount |-> 1]

(***************************************************************************)
(* C22: checkAnswer marks the node solved exactly when the input and the   *)
(* node's label are equal once lower-cased and rid of all whitespace; on a *)
(* mismatch the session is not mutated at all (the active session with     *)
(* its nodeStates, progress, difficulty and lastUpdated, the collection    *)
(* and the persisted list are as before) and only the error flag is        *)
(* raised; a raised flag always has a timeout pending, and the timeout     *)
(* clears the flag and leaves the session state as it is.                  *)
(***************************************************************************)
\* the comparison of the claim: lower-case first, whitespace removed after
SameAnswer(value, label) ==
  RemoveSpaces(toLowerCase(value)) = RemoveSpaces(toLowerCase(label))

SessionUntouched ==
  /\ activeSession' = activeSession
  /\ sessions' = sessions
  /\ storage' = storage
  /\ view' = view

AnswerChecked ==
  LET id == activeSession.data[node].id
  IN  IF SameAnswer(inputValue, activeSession.data[node].text)
      THEN /\ StateOf(activeSession'.nodeStates, id).isSolved
           /\ ~isError'
      ELSE /\ ~StateOf(activeSession'.nodeStates, id).isSolved
           /\ SessionUntouched
           /\ isError'
           /\ inputValue' = inputValue

C22_CheckAnswer ==
  /\ [](isError => timers > 0)
  /\ [][/\ checkAnswer => AnswerChecked
        /\ ErrorTimeout => ~isError' /\ SessionUntouched]_vars

\* a label of two words was answered wrongly, then with other case and
\* spacing: the node is solved while the timeout of the mismatch is pending
C22_Witness ==
  /\ node # 0
  /\ activeSession # Null
  /\ activeSession.data[node].text = <<"A", " ", "b">>
  /\ inputValue = <<" ", "A", " ", "B", " ">>
  /\ StateOf(activeSession.nodeStates, activeSession.data[node].id).isSolved
  /\ timers > 0
  /\ ~isError

(***************************************************************************)
(* C23: collapse state is presentational.  A press of a node's collapse    *)
(* button flips the isCollapsed of that node, and toggleGlobalExpand gives *)
(* every node of the tree an entry with one and the same isCollapsed;      *)
(* either step leaves isSolved, isStarred and hintCount of every node,     *)
(* the set of masked nodes, the tree, the difficulty and the progress as   *)
(* they were, and removes no entry.  An entry holding the default state    *)
(* behaves as no entry: without it the same nodes are masked and           *)
(* rendered, the progress is the same, and every later update of the node  *)
(* gives the same store.                                                   *)
(***************************************************************************)
MaskedSet(s) == {i \in NodesOf(s.data) : isMasked(s, i)}

\* the state of a node, its isCollapsed apart
RecallOf(s, id) ==
  LET st == StateOf(s.nodeStates, id)
  IN  <<st.isSolved, st.isStarred, st.hintCount>>

CollapsedOf(s, id) == StateOf(s.nodeStates, id).isCollapsed

\* from x to y nothing but isCollapsed fields changed
CollapseOnly(x, y) ==
  /\ DOMAIN x.nodeStates \subseteq DOMAIN y.nodeStates
  /\ \A id \in DOMAIN y.nodeStates \cup TreeIds(x) :
       RecallOf(y, id) = RecallOf(x, id)
  /\ MaskedSet(y) = MaskedSet(x)
  /\ y.data = x.data
  /\ y.difficulty = x.difficulty
  /\ y.progress = x.progress

OneCollapseFlipped ==
  \E id \in TreeIds(activeSession) :
    /\ CollapsedOf(activeSession', id) = ~CollapsedOf(activeSession, id)
    /\ \A other \in (DOMAIN activeSession'.nodeStates
                      \cup TreeIds(activeSession)) \ {id} :
         CollapsedOf(activeSession', other) = CollapsedOf(activeSession, other)

AllCollapseSet ==
  /\ globalExpand' = ~globalExpand
  /\ TreeIds(activeSession) \subseteq DOMAIN activeSession'.nodeStates
  /\ \A id \in TreeIds(activeSession) :
       activeSession'.nodeStates[id].isCollapsed = globalExpand
  /\ \A id \in DOMAIN activeSession'.nodeStates \ TreeIds(activeSession) :
       CollapsedOf(activeSession', id) = CollapsedOf(activeSession, id)

\* the session without the entry of id
DropEntry(s, id) ==
  [s EXCEPT !.nodeStates =
     [k \in DOMAIN s.nodeStates \ {id} |-> s.nodeStates[k]]]

PartialStates ==
  {[isSolved |-> TRUE], [isStarred |-> TRUE], [isCollapsed |-> TRUE],
   [hintCount |-> 1]}

DefaultEntryIsNoEntry ==
  activeSession # Null =>
    \A id \in DOMAIN activeSession.nodeStates :
      activeSession.nodeStates[id] = DefaultNodeState =>
        LET bare == DropEntry(activeSession, id)
        IN  /\ MaskedSet(bare) = MaskedSet(activeSession)
            /\ Rendered(bare) = Rendered(activeSession)
            /\ updateProgress(bare).progress
                 = updateProgress(activeSession).progress
            /\ \A P \in PartialStates :
                 finalSession(bare, id, P, now)
                   = finalSession(activeSession, id, P, now)

C23_CollapseIsPresentational ==
  /\ []DefaultEntryIsNoEntry
  /\ [][/\ ToggleCollapse =>
             /\ CollapseOnly(activeSession, activeSession')
             /\ OneCollapseFlipped
        /\ ToggleGlobalExpand =>
             /\ CollapseOnly(activeSession, activeSession')
             /\ AllCollapseSet]_vars

\* a node was solved, then everything was collapsed and expanded again:
\* every node has an entry, the root's holds the default state
C23_Witness ==
  /\ activeSession # Null
  /\ globalExpand
  /\ DOMAIN activeSession.nodeStates = TreeIds(activeSession)
  /\ activeSession.nodeStates[activeSession.data[1].id] = DefaultNodeState
  /\ SolvedEntries(activeSession) # {}
  /\ Len(activeSession.data) >= 3

(***************************************************************************)
(* C24: when the read of an uploaded file completes, whatever was done     *)
(* since the file was chosen, the collection becomes the new session       *)
(* followed by the collection exactly as it was immediately before the     *)
(* completion, in memory and in the persisted list: no deleted session is  *)
(* back and no saved entry is replaced by an older snapshot.               *)
(***************************************************************************)
C24_UploadPrependsToCurrent ==
  [][FileLoaded =>
       /\ sessions' = <<activeSession'>> \o sessions
       /\ storage'.saved
       /\ storage'.list = sessions']_vars

====
